---- MODULE Spec2Model ----
(***************************************************************************)
(* Model of spotify_player/src/client.rs: the client's event watcher       *)
(* (start_watcher), the event dispatch (Client::handle_event) and the      *)
(* shared application state they read and write.                           *)
(*                                                                         *)
(* The watcher is one task.  Every `.await` on a remote call is a point    *)
(* where the task is suspended, so each handler is cut at its remote       *)
(* calls: one action issues the call (inflight becomes Some(call)) and one *)
(* action takes the response, which the remote side chooses (success with  *)
(* a value, or an error).                                                  *)
(***************************************************************************)
EXTENDS Integers, Sequences, FiniteSets, TLC

VARIABLES
    \* fields of state::State (behind the RwLock of state::SharedState)
    is_running,
    auth_token_expires_at,
    current_playlist,
    current_playlist_tracks,
    current_playback_context,
    context_search_state,
    ui_context_tracks_table_state,
    \* the RwLock of the shared state, as held by the client task
    lock,
    \* the task running start_watcher
    pc,
    event,
    inflight,
    tracks,
    elapsed,
    \* history of the dispatch in progress or just returned
    pre,
    result,
    calls

shared == <<is_running, auth_token_expires_at, current_playlist,
            current_playlist_tracks, current_playback_context,
            context_search_state, ui_context_tracks_table_state>>

history == <<pre, result, calls>>

vars == <<shared, lock, pc, event, inflight, tracks, elapsed, history>>

----------------------------------------------------------------------------
(* Option<T>: None is the empty sequence, Some(v) the one-element sequence *)

None == <<>>

Some(v) == <<v>>

IsSome(o) == o # <<>>

Unwrap(o) == o[1]

----------------------------------------------------------------------------
(* Strings are sequences of characters *)

Lower(c) ==
    CASE c = "A" -> "a"
      [] c = "B" -> "b"
      [] OTHER -> c

to_lowercase(s) == [i \in 1..Len(s) |-> Lower(s[i])]

contains(s, pat) ==
    \E i \in 0..(Len(s) - Len(pat)) : SubSeq(s, i + 1, i + Len(pat)) = pat

----------------------------------------------------------------------------
(* The remote catalog: the pages of every playlist's track list.  The      *)
(* first page is embedded in the playlist object, the others are reached   *)
(* through the `next` cursor of the page before.                           *)

TrackAb == [track |-> Some([name |-> <<"A", "b">>])]

TrackxB == [track |-> Some([name |-> <<"x", "B">>])]

TrackMissing == [track |-> None]

\* the number of pages of the longest playlist
MaxPages == 3

Catalog ==
    [id \in {"p1", "p2", "p3"} |->
        CASE id = "p1" -> [k \in 1..MaxPages |->
                             IF k % 2 = 1 THEN <<TrackAb, TrackMissing>>
                                          ELSE <<TrackxB>>]
          [] id = "p2" -> << <<TrackMissing>> >>
          [] OTHER     -> << <<TrackxB>>, <<>> >>]

PlaylistIds == DOMAIN Catalog

Cursor(id, k) ==
    IF k < Len(Catalog[id]) THEN Some([id |-> id, page |-> k + 1]) ELSE None

TracksPage(id, k) == [items |-> Catalog[id][k], next |-> Cursor(id, k)]

FullPlaylist(id) == [id |-> id, tracks |-> TracksPage(id, 1)]

\* the search queries the UI can store; the first character is the trigger
Queries == { <<"/", "a">>, <<"/", "B">> }

\* the token expiry times the authentication service can hand out
TokenExpiries == {100, 200}

\* the playback snapshots the remote service can report
PlaybackContexts ==
    [is_playing : BOOLEAN,
     shuffle_state : BOOLEAN,
     repeat_state : {"Off", "Track", "Context"},
     context : {None, Some([uri |-> "ctx"])}]

SortOrders == {"Ascending", "Descending"}

\* config::PLAYBACK_REFRESH_DURACTION, in ticks of the model's clock
PLAYBACK_REFRESH_DURACTION == 1

----------------------------------------------------------------------------
(* state::State *)

State ==
    [is_running |-> is_running,
     auth_token_expires_at |-> auth_token_expires_at,
     current_playlist |-> current_playlist,
     current_playlist_tracks |-> current_playlist_tracks,
     current_playback_context |-> current_playback_context,
     context_search_state |-> context_search_state,
     ui_context_tracks_table_state |-> ui_context_tracks_table_state]

get_context_tracks == current_playlist_tracks

get_context_filtered_tracks ==
    IF IsSome(context_search_state.query)
    THEN context_search_state.tracks
    ELSE get_context_tracks

get_track_description(t) == Unwrap(t.track).name

\* lexicographic order of two strings by the rank of their characters
CharRank(c) ==
    CASE c = "/" -> 0
      [] c = "A" -> 1
      [] c = "B" -> 2
      [] c = "a" -> 3
      [] c = "b" -> 4
      [] OTHER -> 5

RECURSIVE StrLeq(_, _)
StrLeq(s, t) ==
    IF s = <<>> THEN TRUE
    ELSE IF t = <<>> THEN FALSE
    ELSE IF CharRank(Head(s)) # CharRank(Head(t))
         THEN CharRank(Head(s)) < CharRank(Head(t))
         ELSE StrLeq(Tail(s), Tail(t))

TrackLeq(order, a, b) ==
    IF order = "Ascending"
    THEN StrLeq(get_track_description(a), get_track_description(b))
    ELSE StrLeq(get_track_description(b), get_track_description(a))

RECURSIVE Insert(_, _, _)
Insert(order, t, s) ==
    IF s = <<>> THEN <<t>>
    ELSE IF TrackLeq(order, Head(s), t)
         THEN <<Head(s)>> \o Insert(order, t, Tail(s))
         ELSE <<t>> \o s

RECURSIVE StableSort(_, _)
StableSort(order, s) ==
    IF s = <<>> THEN <<>>
    ELSE Insert(order, s[Len(s)], StableSort(order, SubSeq(s, 1, Len(s) - 1)))

sort_playlist_tracks(order) == StableSort(order, current_playlist_tracks)

----------------------------------------------------------------------------
(* Events *)

Ev(type) == [type |-> type]

GetPlaylistEv(id) == [type |-> "GetPlaylist", playlist_id |-> id]

SortPlaylistTracksEv(order) == [type |-> "SortPlaylistTracks", order |-> order]

Call(op, arg) == [op |-> op, arg |-> arg]

----------------------------------------------------------------------------
\* start_watcher is entered with a fresh state: running, nothing loaded,
\* nothing selected, no search
Init ==
    /\ is_running = TRUE
    /\ auth_token_expires_at = 0
    /\ current_playlist = None
    /\ current_playlist_tracks = <<>>
    /\ current_playback_context = None
    /\ context_search_state = [query |-> None, tracks |-> <<>>]
    /\ ui_context_tracks_table_state = None
    /\ lock = "free"
    /\ pc = "start"
    /\ event = None
    /\ inflight = None
    /\ tracks = <<>>
    /\ elapsed = 0
    /\ pre = None
    /\ result = "none"
    /\ calls = <<>>

----------------------------------------------------------------------------
(* Steps shared by the handlers *)

\* try_recv handed over event e: handle_event starts on it
Begin(e) ==
    /\ pc = "recv"
    /\ event' = Some(e)
    /\ pre' = Some(State)

\* handle_event issues a remote call and is suspended on it, holding l
Issue(call, l, at) ==
    /\ inflight' = Some(call)
    /\ calls' = Append(calls, call)
    /\ lock' = l
    /\ result' = "none"
    /\ pc' = at

\* handle_event returns Ok(()): the loop goes on to its timer check
ReturnOk ==
    /\ pc' = "timer"
    /\ result' = "ok"
    /\ lock' = "free"
    /\ inflight' = None

\* handle_event returns Err: the `?` of start_watcher returns it
ReturnErr ==
    /\ pc' = "exited"
    /\ result' = "err"
    /\ lock' = "free"
    /\ inflight' = None

ClearHistory ==
    /\ event' = None
    /\ pre' = None
    /\ result' = "none"
    /\ calls' = <<>>

\* refresh_token: the stored expiry is the token's, less a margin of 10 s
refresh_token(expires_at) == expires_at - 10

----------------------------------------------------------------------------
(* start_watcher: startup *)

StartupRefreshToken ==
    /\ pc = "start"
    /\ pc' = "startup_token"
    /\ inflight' = Some(Call("refresh_token", "-"))
    /\ UNCHANGED <<shared, lock, event, tracks, elapsed, history>>

StartupRefreshTokenReturn ==
    /\ pc = "startup_token"
    /\ \/ /\ \E e \in TokenExpiries : auth_token_expires_at' = refresh_token(e)
          /\ pc' = "startup_playback"
          /\ inflight' = Some(Call("current_playback", "-"))
       \/ /\ pc' = "exited"
          /\ inflight' = None
          /\ UNCHANGED auth_token_expires_at
    /\ UNCHANGED <<is_running, current_playlist, current_playlist_tracks,
                   current_playback_context, context_search_state,
                   ui_context_tracks_table_state, lock, event, tracks, elapsed,
                   history>>

StartupPlaybackReturn ==
    /\ pc = "startup_playback"
    /\ inflight' = None
    /\ \/ /\ \E c \in {None} \cup {Some(x) : x \in PlaybackContexts} :
                current_playback_context' = c
          /\ elapsed' = 0
          /\ pc' = "recv"
       \/ /\ pc' = "exited"
          /\ UNCHANGED <<current_playback_context, elapsed>>
    /\ UNCHANGED <<is_running, auth_token_expires_at, current_playlist,
                   current_playlist_tracks, context_search_state,
                   ui_context_tracks_table_state, lock, event, tracks, history>>

----------------------------------------------------------------------------
(* start_watcher: the loop *)

TryRecvEmpty ==
    /\ pc = "recv"
    /\ pc' = "timer"
    /\ UNCHANGED <<shared, lock, event, inflight, tracks, elapsed, history>>

TimerNotElapsed ==
    /\ pc = "timer"
    /\ ~(elapsed > PLAYBACK_REFRESH_DURACTION)
    /\ pc' = "recv"
    /\ ClearHistory
    /\ UNCHANGED <<shared, lock, inflight, tracks, elapsed>>

TimerElapsed ==
    /\ pc = "timer"
    /\ elapsed > PLAYBACK_REFRESH_DURACTION
    /\ pc' = "refresh_playback"
    /\ inflight' = Some(Call("current_playback", "-"))
    /\ ClearHistory
    /\ UNCHANGED <<shared, lock, tracks, elapsed>>

RefreshPlaybackReturn ==
    /\ pc = "refresh_playback"
    /\ inflight' = None
    /\ \/ /\ \E c \in {None} \cup {Some(x) : x \in PlaybackContexts} :
                current_playback_context' = c
          /\ elapsed' = 0
          /\ pc' = "recv"
       \/ /\ pc' = "exited"
          /\ UNCHANGED <<current_playback_context, elapsed>>
    /\ UNCHANGED <<is_running, auth_token_expires_at, current_playlist,
                   current_playlist_tracks, context_search_state,
                   ui_context_tracks_table_state, lock, event, tracks, history>>

----------------------------------------------------------------------------
(* Client::handle_event: events that only call the remote service *)

\* a handler that takes the write guard before it awaits the new token
RefreshToken_HoldsWriteGuard ==
    /\ Begin(Ev("RefreshToken"))
    /\ Issue(Call("refresh_token", "-"), "write", "refresh_token")
    /\ UNCHANGED <<shared, tracks, elapsed>>

RefreshToken ==
    /\ Begin(Ev("RefreshToken"))
    /\ Issue(Call("refresh_token", "-"), "free", "refresh_token")
    /\ UNCHANGED <<shared, tracks, elapsed>>

RefreshTokenReturn ==
    /\ pc = "refresh_token"
    /\ \/ /\ \E e \in TokenExpiries : auth_token_expires_at' = refresh_token(e)
          /\ ReturnOk
       \/ /\ ReturnErr
          /\ UNCHANGED auth_token_expires_at
    /\ UNCHANGED <<is_running, current_playlist, current_playlist_tracks,
                   current_playback_context, context_search_state,
                   ui_context_tracks_table_state, event, tracks, elapsed, pre,
                   calls>>

NextTrack ==
    /\ Begin(Ev("NextTrack"))
    /\ Issue(Call("next_track", "-"), "free", "await_unit")
    /\ UNCHANGED <<shared, tracks, elapsed>>

PreviousTrack ==
    /\ Begin(Ev("PreviousTrack"))
    /\ Issue(Call("previous_track", "-"), "free", "await_unit")
    /\ UNCHANGED <<shared, tracks, elapsed>>

\* a return that patches the stored shuffle flag after a shuffle call
UnitReturn_PatchesShuffle ==
    /\ pc = "await_unit"
    /\ \/ /\ ReturnOk
          /\ current_playback_context' =
                IF Unwrap(inflight).op = "shuffle"
                THEN Some([Unwrap(current_playback_context)
                              EXCEPT !.shuffle_state = Unwrap(inflight).arg])
                ELSE current_playback_context
       \/ /\ ReturnErr
          /\ UNCHANGED current_playback_context
    /\ UNCHANGED <<is_running, auth_token_expires_at, current_playlist,
                   current_playlist_tracks, context_search_state,
                   ui_context_tracks_table_state, event, tracks, elapsed, pre,
                   calls>>

\* the remote call of a handler that ends with it returns
UnitReturn ==
    /\ pc = "await_unit"
    /\ \/ ReturnOk
       \/ ReturnErr
    /\ UNCHANGED <<shared, event, tracks, elapsed, pre, calls>>

\* a cycle that never leaves Track
NextRepeatState_TrackSticks(repeat_state) ==
    CASE repeat_state = "Off" -> "Track"
      [] repeat_state = "Track" -> "Track"
      [] OTHER -> "Off"

\* cycle_repeat: the repeat state that follows
NextRepeatState(repeat_state) ==
    CASE repeat_state = "Off" -> "Track"
      [] repeat_state = "Track" -> "Context"
      [] OTHER -> "Off"

\* get_current_playback_state: the playback context is known
HasPlaybackState == IsSome(current_playback_context)

\* toggle_playing_state: the call that toggles the playing state
TogglePlayingCall(playback) ==
    IF playback.is_playing THEN Call("pause_playback", "-")
                           ELSE Call("resume_playback", "-")

\* toggle_shuffle: the call that toggles the shuffle state
ShuffleCall(playback) == Call("shuffle", ~playback.shuffle_state)

\* cycle_repeat: the call that sets the next repeat state
RepeatCall(playback) == Call("repeat", NextRepeatState(playback.repeat_state))

\* the three handlers below take a read guard on the state and call the
\* remote service with the guard alive
ResumePause ==
    /\ Begin(Ev("ResumePause"))
    /\ IF HasPlaybackState
       THEN Issue(TogglePlayingCall(Unwrap(current_playback_context)),
                  "read", "await_unit")
       ELSE ReturnErr /\ UNCHANGED calls
    /\ UNCHANGED <<shared, tracks, elapsed>>

\* a handler that silently does nothing without a playback context
Shuffle_SkipsWhenAbsent ==
    /\ Begin(Ev("Shuffle"))
    /\ IF HasPlaybackState
       THEN Issue(ShuffleCall(Unwrap(current_playback_context)),
                  "read", "await_unit")
       ELSE ReturnOk /\ UNCHANGED calls
    /\ UNCHANGED <<shared, tracks, elapsed>>

Shuffle ==
    /\ Begin(Ev("Shuffle"))
    /\ IF HasPlaybackState
       THEN Issue(ShuffleCall(Unwrap(current_playback_context)),
                  "read", "await_unit")
       ELSE ReturnErr /\ UNCHANGED calls
    /\ UNCHANGED <<shared, tracks, elapsed>>

Repeat ==
    /\ Begin(Ev("Repeat"))
    /\ IF HasPlaybackState
       THEN Issue(RepeatCall(Unwrap(current_playback_context)),
                  "read", "await_unit")
       ELSE ReturnErr /\ UNCHANGED calls
    /\ UNCHANGED <<shared, tracks, elapsed>>

Quit ==
    /\ Begin(Ev("Quit"))
    /\ is_running' = FALSE
    /\ ReturnOk
    /\ UNCHANGED <<auth_token_expires_at, current_playlist,
                   current_playlist_tracks, current_playback_context,
                   context_search_state, ui_context_tracks_table_state, tracks,
                   elapsed, calls>>

----------------------------------------------------------------------------
(* Client::handle_event: Event::GetPlaylist *)

\* a dispatch that never recognises the loaded playlist
AlreadyLoaded_Never(playlist_id) == FALSE

\* "avoid getting the same playlist more than once"
AlreadyLoaded(playlist_id) ==
    /\ IsSome(current_playlist)
    /\ Unwrap(current_playlist).id = playlist_id

\* a filter that keeps every entry
HasTrack_KeepsAll(t) == TRUE

\* "filter tracks that are either unaccessible or deleted from album"
HasTrack(t) == IsSome(t.track)

\* the selection of the tracks table once the filtered tracks are known
SelectionAfterLoad(filtered) ==
    IF filtered # <<>> THEN Some(0) ELSE ui_context_tracks_table_state

\* get_current_playlist_tracks: one turn of `while let Some(url) = next`;
\* with no page left it returns the tracks and the read guard is dropped
FetchTracks(acc, next) ==
    /\ tracks' = acc
    /\ IF IsSome(next)
       THEN Issue(Call("page", Unwrap(next)), "read", "get_tracks")
       ELSE /\ pc' = "select_first"
            /\ inflight' = None
            /\ lock' = "free"
            /\ result' = "none"
            /\ UNCHANGED calls
    /\ UNCHANGED <<current_playlist_tracks, ui_context_tracks_table_state>>

GetPlaylist(playlist_id) ==
    /\ Begin(GetPlaylistEv(playlist_id))
    /\ IF AlreadyLoaded(playlist_id)
       THEN ReturnOk /\ UNCHANGED calls
       ELSE Issue(Call("playlist", playlist_id), "free", "get_playlist")
    /\ UNCHANGED <<shared, tracks, elapsed>>

GetPlaylistReturn ==
    /\ pc = "get_playlist"
    /\ \/ LET playlist == FullPlaylist(Unwrap(inflight).arg) IN
            /\ current_playlist' = Some(playlist)
            /\ FetchTracks(playlist.tracks.items, playlist.tracks.next)
       \/ /\ ReturnErr
          /\ UNCHANGED <<current_playlist, current_playlist_tracks,
                         ui_context_tracks_table_state, tracks, calls>>
    /\ UNCHANGED <<is_running, auth_token_expires_at, current_playback_context,
                   context_search_state, event, elapsed, pre>>

\* a page fetch whose failure stores the tracks fetched so far
TracksPageReturn_StoresPartial ==
    /\ pc = "get_tracks"
    /\ \/ LET url == Unwrap(inflight).arg
              paged_tracks == TracksPage(url.id, url.page)
          IN  FetchTracks(tracks \o paged_tracks.items, paged_tracks.next)
       \/ /\ ReturnErr
          /\ tracks' = <<>>
          /\ current_playlist_tracks' = SelectSeq(tracks, HasTrack)
          /\ UNCHANGED <<ui_context_tracks_table_state, calls>>
    /\ UNCHANGED <<is_running, auth_token_expires_at, current_playlist,
                   current_playback_context, context_search_state, event,
                   elapsed, pre>>

TracksPageReturn ==
    /\ pc = "get_tracks"
    /\ \/ LET url == Unwrap(inflight).arg
              paged_tracks == TracksPage(url.id, url.page)
          IN  FetchTracks(tracks \o paged_tracks.items, paged_tracks.next)
       \/ /\ ReturnErr
          /\ tracks' = <<>>
          /\ UNCHANGED <<current_playlist_tracks, ui_context_tracks_table_state,
                         calls>>
    /\ UNCHANGED <<is_running, auth_token_expires_at, current_playlist,
                   current_playback_context, context_search_state, event,
                   elapsed, pre>>

\* the tracks are filtered and, under a write guard of its own, the first
\* one is selected
SelectFirstTrack ==
    /\ pc = "select_first"
    /\ LET filtered == SelectSeq(tracks, HasTrack) IN
         /\ ui_context_tracks_table_state' = SelectionAfterLoad(filtered)
         /\ tracks' = filtered
    /\ pc' = "store_tracks"
    /\ UNCHANGED <<is_running, auth_token_expires_at, current_playlist,
                   current_playlist_tracks, current_playback_context,
                   context_search_state, lock, event, inflight, elapsed,
                   history>>

\* under the next write guard the filtered tracks are stored
StoreTracks ==
    /\ pc = "store_tracks"
    /\ current_playlist_tracks' = tracks
    /\ tracks' = <<>>
    /\ ReturnOk
    /\ UNCHANGED <<is_running, auth_token_expires_at, current_playlist,
                   current_playback_context, context_search_state,
                   ui_context_tracks_table_state, event, elapsed, pre, calls>>

----------------------------------------------------------------------------
(* Client::handle_event: the tracks table *)

\* a step down that may leave the list by one
NextSelection_OffByOne(selected, len) ==
    IF IsSome(selected) /\ Unwrap(selected) + 1 <= len
    THEN Some(Unwrap(selected) + 1)
    ELSE selected

\* SelectNextTrack: the selection one down, if there is a track there
NextSelection(selected, len) ==
    IF IsSome(selected) /\ Unwrap(selected) + 1 < len
    THEN Some(Unwrap(selected) + 1)
    ELSE selected

\* SelectPreviousTrack: the selection one up, if it is not the first
PreviousSelection(selected) ==
    IF IsSome(selected) /\ Unwrap(selected) > 0
    THEN Some(Unwrap(selected) - 1)
    ELSE selected

SelectNextTrack ==
    /\ Begin(Ev("SelectNextTrack"))
    /\ ui_context_tracks_table_state' =
          NextSelection(ui_context_tracks_table_state,
                        Len(get_context_filtered_tracks))
    /\ ReturnOk
    /\ UNCHANGED <<is_running, auth_token_expires_at, current_playlist,
                   current_playlist_tracks, current_playback_context,
                   context_search_state, tracks, elapsed, calls>>

SelectPreviousTrack ==
    /\ Begin(Ev("SelectPreviousTrack"))
    /\ ui_context_tracks_table_state' =
          PreviousSelection(ui_context_tracks_table_state)
    /\ ReturnOk
    /\ UNCHANGED <<is_running, auth_token_expires_at, current_playlist,
                   current_playlist_tracks, current_playback_context,
                   context_search_state, tracks, elapsed, calls>>

\* a handler that reports an error when there is nothing to play
PlaySelectedTrack_FailsWhenUnmet ==
    /\ Begin(Ev("PlaySelectedTrack"))
    /\ IF /\ IsSome(ui_context_tracks_table_state)
          /\ IsSome(current_playback_context)
          /\ IsSome(Unwrap(current_playback_context).context)
       THEN LET id == Unwrap(ui_context_tracks_table_state)
                context == Unwrap(Unwrap(current_playback_context).context)
            IN  IF id < Len(get_context_filtered_tracks)
                THEN Issue(Call("start_playback",
                                <<context.uri, get_context_filtered_tracks[id + 1]>>),
                           "read", "await_unit")
                ELSE /\ pc' = "panicked"
                     /\ result' = "panic"
                     /\ UNCHANGED <<lock, inflight, calls>>
       ELSE ReturnErr /\ UNCHANGED calls
    /\ UNCHANGED <<shared, tracks, elapsed>>

PlaySelectedTrack ==
    /\ Begin(Ev("PlaySelectedTrack"))
    /\ IF /\ IsSome(ui_context_tracks_table_state)
          /\ IsSome(current_playback_context)
          /\ IsSome(Unwrap(current_playback_context).context)
       THEN LET id == Unwrap(ui_context_tracks_table_state)
                context == Unwrap(Unwrap(current_playback_context).context)
            IN  IF id < Len(get_context_filtered_tracks)
                THEN Issue(Call("start_playback",
                                <<context.uri, get_context_filtered_tracks[id + 1]>>),
                           "read", "await_unit")
                ELSE \* index out of bounds: the task panics
                     /\ pc' = "panicked"
                     /\ result' = "panic"
                     /\ UNCHANGED <<lock, inflight, calls>>
       ELSE ReturnOk /\ UNCHANGED calls
    /\ UNCHANGED <<shared, tracks, elapsed>>

\* the tracks of the context whose lowercased description contains the query
SearchTracks(query) ==
    LET Matches(t) == contains(to_lowercase(get_track_description(t)), query)
    IN  SelectSeq(get_context_tracks, Matches)

\* "update ui selection"
SelectionAfterSearch(found) == IF found = <<>> THEN None ELSE Some(0)

SearchTrackInContext ==
    /\ Begin(Ev("SearchTrackInContext"))
    /\ IF IsSome(context_search_state.query)
       THEN LET query == Tail(Unwrap(context_search_state.query))
                found == SearchTracks(query)
            IN  /\ context_search_state' =
                       [context_search_state EXCEPT !.tracks = found]
                /\ ui_context_tracks_table_state' = SelectionAfterSearch(found)
       ELSE UNCHANGED <<context_search_state, ui_context_tracks_table_state>>
    /\ ReturnOk
    /\ UNCHANGED <<is_running, auth_token_expires_at, current_playlist,
                   current_playlist_tracks, current_playback_context, tracks,
                   elapsed, calls>>

SortPlaylistTracks(order) ==
    /\ Begin(SortPlaylistTracksEv(order))
    /\ current_playlist_tracks' = sort_playlist_tracks(order)
    /\ ReturnOk
    /\ UNCHANGED <<is_running, auth_token_expires_at, current_playlist,
                   current_playback_context, context_search_state,
                   ui_context_tracks_table_state, tracks, elapsed, calls>>

----------------------------------------------------------------------------
(* The environment of the watcher *)

\* the wall clock advances; elapsed is the time since last_refresh, counted
\* up to the first value that exceeds the refresh duration
TimePasses ==
    /\ elapsed <= PLAYBACK_REFRESH_DURACTION
    /\ elapsed' = elapsed + 1
    /\ UNCHANGED <<shared, lock, pc, event, inflight, tracks, history>>

\* the presentation layer stores or clears the search query.  It needs the
\* write lock; the write commutes with every step of a dispatch that does not
\* hold the lock, so it is taken between two ticks of the loop.
UISetQuery(q) ==
    /\ pc = "recv"
    /\ lock = "free"
    /\ context_search_state.query # q
    /\ context_search_state' = [context_search_state EXCEPT !.query = q]
    /\ UNCHANGED <<is_running, auth_token_expires_at, current_playlist,
                   current_playlist_tracks, current_playback_context,
                   ui_context_tracks_table_state, lock, pc, event, inflight,
                   tracks, elapsed, history>>

----------------------------------------------------------------------------
WatcherNext ==
    \/ StartupRefreshToken
    \/ StartupRefreshTokenReturn
    \/ StartupPlaybackReturn
    \/ TryRecvEmpty
    \/ TimerNotElapsed
    \/ TimerElapsed
    \/ RefreshPlaybackReturn
    \/ RefreshToken
    \/ RefreshTokenReturn
    \/ NextTrack
    \/ PreviousTrack
    \/ UnitReturn
    \/ ResumePause
    \/ Shuffle
    \/ Repeat
    \/ Quit
    \/ \E playlist_id \in PlaylistIds : GetPlaylist(playlist_id)
    \/ GetPlaylistReturn
    \/ TracksPageReturn
    \/ SelectFirstTrack
    \/ StoreTracks
    \/ SelectNextTrack
    \/ SelectPreviousTrack
    \/ PlaySelectedTrack
    \/ SearchTrackInContext
    \/ \E order \in SortOrders : SortPlaylistTracks(order)

Next ==
    \/ WatcherNext
    \/ TimePasses
    \/ \E q \in {None} \cup {Some(x) : x \in Queries} : UISetQuery(q)

Spec == Init /\ [][Next]_vars

\* the task of start_watcher is scheduled and every remote call returns
FairSpec == Spec /\ WF_vars(WatcherNext)

\* handle_event is public: a caller other than start_watcher can take the Err
\* of one dispatch and go on to dispatch the next event
CallerContinues ==
    /\ pc = "exited"
    /\ IsSome(event)
    /\ result = "err"
    /\ pc' = "recv"
    /\ ClearHistory
    /\ UNCHANGED <<shared, lock, inflight, tracks, elapsed>>

DirectNext ==
    \/ Next
    \/ CallerContinues

DirectSpec == Init /\ [][DirectNext]_vars

----------------------------------------------------------------------------
(* Properties.  `event`, `pre`, `result` and `calls` describe the dispatch   *)
(* in progress or the one that returned last: the event, the state when      *)
(* handle_event started on it, its outcome, and the remote calls it issued.  *)

EventIs(type) == IsSome(event) /\ Unwrap(event).type = type

\* handle_event(GetPlaylist(id)) found another playlist, or none, loaded
LoadedAnother ==
    /\ EventIs("GetPlaylist")
    /\ ~ ( /\ IsSome(Unwrap(pre).current_playlist)
           /\ Unwrap(Unwrap(pre).current_playlist).id = Unwrap(event).playlist_id )

\* C1: when a GetPlaylist dispatch returns an error, current_playlist,
\* current_playlist_tracks and the selection all have their pre-load values.
C1_LoadPlaylistAtomicOnFailure ==
    (EventIs("GetPlaylist") /\ result = "err") =>
        /\ current_playlist = Unwrap(pre).current_playlist
        /\ current_playlist_tracks = Unwrap(pre).current_playlist_tracks
        /\ ui_context_tracks_table_state = Unwrap(pre).ui_context_tracks_table_state

\* C2: after handle_event returns an error inside start_watcher, the loop of
\* start_watcher is still running.
C2_DispatchFailureNotFatal ==
    (IsSome(event) /\ result = "err") => pc # "exited"

\* C3: once Quit has set is_running to false, no remote call is in flight:
\* neither the periodic refresh nor a later dispatch issues one.
C3_NoGatewayCallAfterQuit ==
    (is_running = FALSE) => inflight = None

\* C4: once Quit has been dispatched, start_watcher eventually returns.
C4_QuitTerminatesLoop ==
    (is_running = FALSE) ~> (pc \in {"exited", "panicked"})

\* C5: after every dispatch has returned, a set selection is a valid index
\* of the displayed tracks.
C5_SelectionIndexInRange ==
    (IsSome(event) /\ result \in {"ok", "err"}
                   /\ IsSome(ui_context_tracks_table_state)) =>
        /\ 0 <= Unwrap(ui_context_tracks_table_state)
        /\ Unwrap(ui_context_tracks_table_state) < Len(get_context_filtered_tracks)

\* C6: after a GetPlaylist that loaded successfully, the selection is 0 if
\* current_playlist_tracks is non-empty and unset otherwise.
C6_SelectionAfterLoad ==
    (LoadedAnother /\ result = "ok") =>
        ui_context_tracks_table_state =
            IF current_playlist_tracks # <<>> THEN Some(0) ELSE None

\* C7: SearchTrackInContext stores exactly the tracks whose description
\* contains the query without its trigger character, compared without regard
\* to case, in their order, and selects 0 if there is one and nothing if not.
C7_SearchCaseInsensitive ==
    (EventIs("SearchTrackInContext") /\ result = "ok"
        /\ IsSome(Unwrap(pre).context_search_state.query)) =>
        LET query == Tail(Unwrap(Unwrap(pre).context_search_state.query))
            Expected(t) == contains(to_lowercase(get_track_description(t)),
                                    to_lowercase(query))
            expected == SelectSeq(Unwrap(pre).current_playlist_tracks, Expected)
        IN  /\ context_search_state.tracks = expected
            /\ ui_context_tracks_table_state =
                   IF expected # <<>> THEN Some(0) ELSE None

\* C8: GetPlaylist(id) dispatched while the playlist with that id is loaded
\* returns Ok, issues no remote call and leaves the whole state as it was.
C8_SamePlaylistShortCircuit ==
    (EventIs("GetPlaylist") /\ ~LoadedAnother) =>
        /\ result = "ok"
        /\ calls = <<>>
        /\ inflight = None
        /\ State = Unwrap(pre)

C8_Witness ==
    /\ EventIs("GetPlaylist")
    /\ ~LoadedAnother
    /\ result = "ok"
    /\ Unwrap(pre).current_playlist_tracks # <<>>

\* the dispatch failed on the second page fetched through a `next` cursor
FailedOnSecondPage ==
    /\ EventIs("GetPlaylist")
    /\ result = "err"
    /\ Len(calls) = 3
    /\ calls[3].op = "page"

\* C9: when the fetch of the second page of a playlist's tracks fails,
\* current_playlist_tracks keeps the value it had before the dispatch.
C9_SecondPageFailureKeepsTracks ==
    FailedOnSecondPage =>
        current_playlist_tracks = Unwrap(pre).current_playlist_tracks

C9_Witness ==
    /\ FailedOnSecondPage
    /\ current_playlist_tracks # <<>>

\* all entries of a playlist's pages, in order
RECURSIVE AllEntries(_, _)
AllEntries(id, k) ==
    IF k > Len(Catalog[id]) THEN <<>>
    ELSE Catalog[id][k] \o AllEntries(id, k + 1)

\* the entries of s that carry track data, in order
RECURSIVE WithTrackData(_)
WithTrackData(s) ==
    IF s = <<>> THEN <<>>
    ELSE IF Head(s).track = None THEN WithTrackData(Tail(s))
         ELSE <<Head(s)>> \o WithTrackData(Tail(s))

\* C10: after a GetPlaylist that loaded successfully, current_playlist_tracks
\* is the concatenation of all pages of the playlist without the entries
\* whose track data is missing, and holds no such entry.
C10_AllPagesFiltered ==
    (LoadedAnother /\ result = "ok") =>
        /\ current_playlist_tracks =
               WithTrackData(AllEntries(Unwrap(event).playlist_id, 1))
        /\ \A i \in 1..Len(current_playlist_tracks) :
               current_playlist_tracks[i].track # None

C10_Witness ==
    /\ LoadedAnother
    /\ result = "ok"
    /\ Len(calls) = MaxPages
    /\ Len(current_playlist_tracks) > 1
    /\ Len(current_playlist_tracks)
           < Len(AllEntries(Unwrap(event).playlist_id, 1))

----------------------------------------------------------------------------
\* the state when the dispatch started
Pre == Unwrap(pre)

\* the dispatch issued no remote call and has returned
NoCallIssued == calls = <<>> /\ inflight = None

\* C11: SelectNextTrack and SelectPreviousTrack return Ok without a remote
\* call and change nothing but the selection; no selection stays none, and a
\* selection inside the displayed list moves by one, or stays where it is at
\* the last (first) track, and is inside the list afterwards.
C11_SelectMovesByOneAndClamps ==
    (EventIs("SelectNextTrack") \/ EventIs("SelectPreviousTrack")) =>
        LET old == Pre.ui_context_tracks_table_state
            new == ui_context_tracks_table_state
            len == Len(get_context_filtered_tracks)
        IN  /\ result = "ok"
            /\ NoCallIssued
            /\ [State EXCEPT !.ui_context_tracks_table_state = old] = Pre
            /\ old = None => new = None
            /\ (IsSome(old) /\ Unwrap(old) < len) =>
                  /\ IsSome(new)
                  /\ 0 <= Unwrap(new) /\ Unwrap(new) < len
                  /\ Unwrap(new) =
                        IF EventIs("SelectNextTrack")
                        THEN (IF Unwrap(old) = len - 1
                              THEN Unwrap(old) ELSE Unwrap(old) + 1)
                        ELSE (IF Unwrap(old) = 0
                              THEN Unwrap(old) ELSE Unwrap(old) - 1)

\* SelectNextTrack at the last of several tracks
C11_Witness ==
    /\ EventIs("SelectNextTrack")
    /\ result = "ok"
    /\ Len(get_context_filtered_tracks) >= 2
    /\ Pre.ui_context_tracks_table_state
          = Some(Len(get_context_filtered_tracks) - 1)
    /\ State = Pre

\* nothing is selected, or no playback context is known, or it has no context
NothingToPlay ==
    \/ Pre.ui_context_tracks_table_state = None
    \/ Pre.current_playback_context = None
    \/ /\ Pre.current_playback_context # None
       /\ Unwrap(Pre.current_playback_context).context = None

\* C12: PlaySelectedTrack dispatched with no selection, no playback context or
\* a playback context without a context URI returns Ok, issues no remote call
\* and leaves the state as it was.
C12_PlaySelectedSilentNoOp ==
    (EventIs("PlaySelectedTrack") /\ NothingToPlay) =>
        /\ result = "ok"
        /\ NoCallIssued
        /\ State = Pre

\* a track is selected and playback is known, but has no context
C12_Witness ==
    /\ EventIs("PlaySelectedTrack")
    /\ IsSome(Pre.ui_context_tracks_table_state)
    /\ IsSome(Pre.current_playback_context)
    /\ Unwrap(Pre.current_playback_context).context = None
    /\ result = "ok"

NeedsPlaybackState ==
    EventIs("ResumePause") \/ EventIs("Shuffle") \/ EventIs("Repeat")

\* C13: ResumePause, Shuffle and Repeat dispatched without a playback context
\* return an error, issue no remote call and leave the state as it was; with
\* one, ResumePause issues pause if is_playing and resume if not, and Shuffle
\* issues shuffle with the negation of the stored flag.
C13_NoActiveContext ==
    NeedsPlaybackState =>
        IF Pre.current_playback_context = None
        THEN /\ result = "err"
             /\ NoCallIssued
             /\ State = Pre
        ELSE LET playback == Unwrap(Pre.current_playback_context) IN
             /\ Len(calls) = 1
             /\ EventIs("ResumePause") =>
                   calls[1].op = IF playback.is_playing THEN "pause_playback"
                                                        ELSE "resume_playback"
             /\ EventIs("Shuffle") =>
                   /\ calls[1].op = "shuffle"
                   /\ calls[1].arg = ~playback.shuffle_state
             /\ EventIs("Repeat") => calls[1].op = "repeat"

C13_Witness ==
    /\ EventIs("Shuffle")
    /\ Pre.current_playback_context = None
    /\ result = "err"
    /\ pc = "exited"

\* C14: the repeat state a Repeat dispatch asks for follows Off -> Track ->
\* Context -> Off; it differs from the stored one, so does the one after it,
\* and the third is the stored one again.
C14_RepeatIsThreeCycle ==
    (EventIs("Repeat") /\ calls # <<>>) =>
        LET m  == Unwrap(Pre.current_playback_context).repeat_state
            r1 == calls[1].arg
            r2 == NextRepeatState(r1)
            r3 == NextRepeatState(r2)
        IN  /\ r1 = CASE m = "Off" -> "Track"
                      [] m = "Track" -> "Context"
                      [] m = "Context" -> "Off"
            /\ r1 # m
            /\ r2 # m
            /\ r3 = m

C14_Witness ==
    /\ EventIs("Repeat")
    /\ calls # <<>>
    /\ Unwrap(Pre.current_playback_context).repeat_state = "Context"
    /\ calls[1].arg = "Off"
    /\ result = "ok"

----------------------------------------------------------------------------
\* C15: while a remote call is in flight the client task holds no write guard
\* on the shared state.
C15_NoWriteGuardAcrossCall ==
    IsSome(inflight) => lock # "write"

\* RefreshToken awaits the token with the state unlocked; the write comes after
C15_Witness ==
    /\ EventIs("RefreshToken")
    /\ IsSome(inflight)
    /\ Unwrap(inflight).op = "refresh_token"
    /\ lock = "free"

\* C16: while a remote call is in flight the client task holds no guard, read
\* or write, on the shared state.
C16_NoGuardAcrossCall ==
    IsSome(inflight) => lock = "free"

\* the playlist, its tracks and the selection are those before the load
AtPreLoad ==
    /\ current_playlist = Pre.current_playlist
    /\ current_playlist_tracks = Pre.current_playlist_tracks
    /\ ui_context_tracks_table_state = Pre.ui_context_tracks_table_state

\* the playlist is the one asked for, with all its tracks, the first selected
AtPostLoad ==
    /\ current_playlist = Some(FullPlaylist(Unwrap(event).playlist_id))
    /\ current_playlist_tracks =
           WithTrackData(AllEntries(Unwrap(event).playlist_id, 1))
    /\ current_playlist_tracks # <<>> => ui_context_tracks_table_state = Some(0)

\* C17: at every point of a GetPlaylist dispatch that loads, the state a
\* reader can see has the playlist, the tracks and the selection either all
\* as before the load or all as after it.
C17_ReaderSeesPreOrPost ==
    LoadedAnother => (AtPreLoad \/ AtPostLoad)

\* a and b hold the same entries, each as often, in whatever order
SameEntries(a, b) ==
    /\ Len(a) = Len(b)
    /\ \A i \in 1..Len(a) :
          Cardinality({j \in 1..Len(a) : a[j] = a[i]})
              = Cardinality({j \in 1..Len(b) : b[j] = a[i]})

\* C18: whenever a GetPlaylist(id) dispatch returns Ok, the state holds the
\* playlist with that id and its filtered tracks (in the order a sort may have
\* given them).
C18_SuccessMeansLoaded ==
    (EventIs("GetPlaylist") /\ result = "ok") =>
        /\ IsSome(current_playlist)
        /\ Unwrap(current_playlist).id = Unwrap(event).playlist_id
        /\ SameEntries(current_playlist_tracks,
                       WithTrackData(AllEntries(Unwrap(event).playlist_id, 1)))

\* C19, in the states with no search query stored, where the displayed tracks
\* are current_playlist_tracks: when PlaySelectedTrack finds a selection and a
\* playback context with a context URI, the selection is a position of the
\* displayed tracks and the dispatch asks for playback of that track.
C19_PlaySelectedInBounds ==
    (EventIs("PlaySelectedTrack") /\ ~NothingToPlay
        /\ Pre.context_search_state.query = None) =>
        /\ Unwrap(Pre.ui_context_tracks_table_state)
               < Len(current_playlist_tracks)
        /\ pc # "panicked"
        /\ Len(calls) = 1
        /\ calls[1].op = "start_playback"

\* C20: current_playback_context changes only in start_watcher, when the
\* startup fetch or a periodic refresh that was due returns, and then to the
\* fetched snapshot; no step of handle_event changes it.
C20_PlaybackContextWrittenByWatcherOnly ==
    [][ current_playback_context' # current_playback_context =>
          /\ \/ pc = "startup_playback"
             \/ pc = "refresh_playback" /\ elapsed > PLAYBACK_REFRESH_DURACTION
          /\ current_playback_context'
                \in {None} \cup {Some(x) : x \in PlaybackContexts} ]_vars

\* a Shuffle dispatch has returned Ok and the stored flag is what it was
C20_Witness ==
    /\ EventIs("Shuffle")
    /\ result = "ok"
    /\ calls[1].arg = ~Unwrap(current_playback_context).shuffle_state
    /\ current_playback_context = Pre.current_playback_context

====
